---- MODULE Spec2Model ----
(***************************************************************************)
(* Model of trie-viz: the Trie of src/src/trie.ts and the TrieVisualizer   *)
(* of src/src/visualizer.ts.                                               *)
(*                                                                         *)
(* A word is a sequence of characters (what `for (const char of word)`     *)
(* yields); a character is a one-character string.  Strings of the DOM     *)
(* (attribute values) are strings.                                         *)
(***************************************************************************)
EXTENDS Integers, Sequences, FiniteSets, TLC

VARIABLES
  root, _words,            \* Trie: the root node and the accepted words
  nodeGroup, linkGroup,    \* TrieVisualizer: the elements of the two layers
  phase,                   \* progress of the transitions of the last render pass
  renderCount, passes,     \* render passes so far; data of those of the last call
  ret, lastOp,             \* the last call and what it returned (<<>>: void)
  anim,                    \* the addWordsAnimated calls made, in call order
  log, nOps, cleared, dropped

trieVars == <<root, _words>>
sceneVars == <<nodeGroup, linkGroup, phase>>
renderVars == <<renderCount, passes>>
histVars == <<log, cleared, dropped>>
vars == <<root, _words, nodeGroup, linkGroup, phase, renderCount, passes,
          ret, lastOp, anim, log, nOps, cleared, dropped>>

\* ------------------------------------------------------------------ bounds
MaxOps == 4

\* ------------------------------------------------------------- characters
\* UTF-16 code unit of each character of the alphabet (all in the BMP, so a
\* character is one code unit and Array.prototype.sort compares by it).
CodeUnit(ch) ==
  CASE ch = "B" -> 66
    [] ch = "_" -> 95
    [] ch = "a" -> 97
    [] ch = "c" -> 99
    [] ch = "d" -> 100
    [] ch = "o" -> 111
    [] ch = "r" -> 114
    [] ch = "t" -> 116

EmptyWord == << >>
cat  == <<"c", "a", "t">>
car  == <<"c", "a", "r">>
card == <<"c", "a", "r", "d">>
cart == <<"c", "a", "r", "t">>
at   == <<"a", "t">>
cB   == <<"c", "B">>
\* the word spelt like the root sentinel of toHierarchy
RootId == <<"_", "_", "r", "o", "o", "t", "_", "_">>

\* the words callers pass to insert
Words == {EmptyWord, cat, car, card, cart, at, cB, RootId}

Range(s) == {s[i] : i \in DOMAIN s}

\* ------------------------------------------------------------ Map<K, V>
\* A JavaScript Map: entries in insertion order.
MapHas(m, k) == \E i \in DOMAIN m : m[i].key = k
MapGet(m, k) == m[CHOOSE i \in DOMAIN m : m[i].key = k].val
MapSet(m, k, v) ==
  IF MapHas(m, k)
    THEN [i \in DOMAIN m |-> IF m[i].key = k THEN [key |-> k, val |-> v] ELSE m[i]]
    ELSE Append(m, [key |-> k, val |-> v])
MapKeys(m) == [i \in DOMAIN m |-> m[i].key]

\* ------------------------------------------------------------------ Trie
createNode == [children |-> << >>, isTerminal |-> FALSE, words |-> << >>]

\* walkCreate with the has() test dropped: every step sets a fresh child
RECURSIVE walkCreate_overwrite(_, _)
walkCreate_overwrite(node, w) ==
  IF w = << >> THEN node
  ELSE [node EXCEPT !.children =
          MapSet(@, Head(w), walkCreate_overwrite(createNode, Tail(w)))]

\* the for-of loop of insert: creates the missing nodes along word
RECURSIVE walkCreate(_, _)
walkCreate(node, w) ==
  IF w = << >> THEN node
  ELSE LET ch == Head(w)
           kids == IF MapHas(node.children, ch)
                     THEN node.children
                     ELSE MapSet(node.children, ch, createNode)
       IN [node EXCEPT !.children =
             MapSet(kids, ch, walkCreate(MapGet(kids, ch), Tail(w)))]

\* the node the loop of insert ends on
RECURSIVE nodeAt(_, _)
nodeAt(node, w) ==
  IF w = << >> THEN node ELSE nodeAt(MapGet(node.children, Head(w)), Tail(w))

\* markTerminal marking every node it passes, not only the last
RECURSIVE markTerminal_all(_, _, _)
markTerminal_all(node, w, word) ==
  IF w = << >>
    THEN [node EXCEPT !.isTerminal = TRUE, !.words = Append(@, word)]
    ELSE [node EXCEPT !.isTerminal = TRUE,
                      !.children = MapSet(@, Head(w),
                         markTerminal_all(MapGet(@, Head(w)), Tail(w), word))]

\* node.isTerminal = true; node.words.push(word) on the node at the end of w
RECURSIVE markTerminal(_, _, _)
markTerminal(node, w, word) ==
  IF w = << >>
    THEN [node EXCEPT !.isTerminal = TRUE, !.words = Append(@, word)]
    ELSE [node EXCEPT !.children =
            MapSet(@, Head(w), markTerminal(MapGet(@, Head(w)), Tail(w), word))]

\* insert without the falsy test: the empty word ends on the root
insert_empty(r, ws, word) ==
  LET walked == walkCreate(r, word)
  IN IF nodeAt(walked, word).isTerminal
       THEN [ret |-> FALSE, root |-> walked, words |-> ws]
       ELSE [ret |-> TRUE, root |-> markTerminal(walked, word, word),
             words |-> Append(ws, word)]

\* insert without the isTerminal test: a duplicate is accepted again
insert_nodup(r, ws, word) ==
  IF word = << >> THEN [ret |-> FALSE, root |-> r, words |-> ws]
  ELSE [ret |-> TRUE,
        root |-> markTerminal(walkCreate(r, word), word, word),
        words |-> Append(ws, word)]

\* insert with unshift in place of push on the word list
insert_front(r, ws, word) ==
  IF word = << >> THEN [ret |-> FALSE, root |-> r, words |-> ws]
  ELSE LET walked == walkCreate(r, word)
       IN IF nodeAt(walked, word).isTerminal
            THEN [ret |-> FALSE, root |-> walked, words |-> ws]
            ELSE [ret |-> TRUE, root |-> markTerminal(walked, word, word),
                  words |-> <<word>> \o ws]

\* Trie.insert on the trie <<r, ws>>: the value returned and the trie after
insert(r, ws, word) ==
  IF word = << >> THEN [ret |-> FALSE, root |-> r, words |-> ws]
  ELSE LET walked == walkCreate(r, word)
       IN IF nodeAt(walked, word).isTerminal
            THEN [ret |-> FALSE, root |-> walked, words |-> ws]
            ELSE [ret |-> TRUE, root |-> markTerminal(walked, word, word),
                  words |-> Append(ws, word)]

\* get words(): a copy of the list
words == _words

wordCountOf(ws) == Len(ws)
wordCount == wordCountOf(_words)

RECURSIVE SumSeq(_)
SumSeq(s) == IF s = << >> THEN 0 ELSE Head(s) + SumSeq(Tail(s))

\* get nodeCount(): walk counts the node and then every child
RECURSIVE walk(_)
walk(node) ==
  1 + SumSeq([i \in DOMAIN node.children |-> walk(node.children[i].val)])
nodeCountOf(r) == walk(r)
nodeCount == nodeCountOf(root)

\* Array.prototype.sort() on single-character keys: ascending by code unit
RECURSIVE InsertSorted(_, _)
InsertSorted(k, s) ==
  IF s = << >> THEN <<k>>
  ELSE IF CodeUnit(k) < CodeUnit(Head(s)) THEN <<k>> \o s
  ELSE <<Head(s)>> \o InsertSorted(k, Tail(s))
\* sort left out: the keys stay in Map insertion order
sort_none(s) == s

RECURSIVE sort(_)
sort(s) == IF s = << >> THEN << >> ELSE InsertSorted(s[Len(s)], sort(SubSeq(s, 1, Len(s) - 1)))

\* convert keeping the children in Map insertion order
RECURSIVE convert_unsorted(_, _, _)
convert_unsorted(node, char, path) ==
  LET keys == MapKeys(node.children)
      children == [i \in DOMAIN keys |->
                     convert_unsorted(MapGet(node.children, keys[i]),
                                      keys[i], path \o <<keys[i]>>)]
  IN [id |-> IF path = << >> THEN RootId ELSE path,
      char |-> char,
      path |-> path,
      isTerminal |-> node.isTerminal,
      words |-> node.words,
      children |-> children]

RECURSIVE convert(_, _, _)
convert(node, char, path) ==
  LET sortedKeys == sort(MapKeys(node.children))
      children == [i \in DOMAIN sortedKeys |->
                     convert(MapGet(node.children, sortedKeys[i]),
                             sortedKeys[i], path \o <<sortedKeys[i]>>)]
  IN [id |-> IF path = << >> THEN RootId ELSE path,
      char |-> char,
      path |-> path,
      isTerminal |-> node.isTerminal,
      words |-> node.words,
      children |-> children]

toHierarchyOf(r) == convert(r, "", << >>)
toHierarchy == toHierarchyOf(root)

\* ------------------------------------------------------------- actions
Init ==
  /\ root = createNode
  /\ _words = << >>
  /\ ret = << >>
  /\ lastOp = [kind |-> "new", word |-> << >>, batch |-> << >>]
  /\ log = << >>
  /\ nOps = 0
  /\ cleared = FALSE
  /\ dropped = {}
  /\ nodeGroup = << >>
  /\ linkGroup = << >>
  /\ phase = 3
  /\ renderCount = 0
  /\ passes = << >>
  /\ anim = << >>

\* trie.insert(word)
Insert(word) ==
  /\ nOps < MaxOps
  /\ LET res == insert(root, _words, word)
     IN /\ root' = res.root
        /\ _words' = res.words
        /\ ret' = <<res.ret>>
        /\ log' = Append(log, [word |-> word, ret |-> res.ret])
  /\ lastOp' = [kind |-> "insert", word |-> word, batch |-> << >>]
  /\ nOps' = nOps + 1
  /\ UNCHANGED <<cleared, dropped, sceneVars, renderVars, anim>>

\* clear that forgets to replace the root
clearRoot_keep(r) == r

\* the state Trie.clear leaves
clearRoot(r) == createNode
clearWords(ws) == << >>

\* trie.clear()
Clear ==
  /\ nOps < MaxOps
  /\ root' = clearRoot(root)
  /\ _words' = clearWords(_words)
  /\ ret' = << >>
  /\ lastOp' = [kind |-> "clear", word |-> << >>, batch |-> << >>]
  /\ log' = << >>
  /\ nOps' = nOps + 1
  /\ cleared' = TRUE
  /\ dropped' = dropped \cup Range(_words)
  /\ UNCHANGED <<sceneVars, renderVars, anim>>

Next ==
  \/ \E word \in Words : Insert(word)
  \/ Clear

Spec == Init /\ [][Next]_vars

\* ------------------------------------------------------------ helpers
Prefixes(w) == {SubSeq(w, 1, k) : k \in 1..Len(w)}
PrefixesOf(ws) == UNION {Prefixes(w) : w \in ws}

RECURSIVE Concat(_)
Concat(ss) == IF ss = << >> THEN << >> ELSE Head(ss) \o Concat(Tail(ss))

\* every node of a hierarchy, the root first
RECURSIVE Flatten(_)
Flatten(h) == <<h>> \o Concat([i \in DOMAIN h.children |-> Flatten(h.children[i])])

\* the hierarchy node reached from h by following the characters of w
RECURSIVE Follow(_, _)
Follow(h, w) ==
  IF w = << >> THEN {h}
  ELSE UNION {Follow(h.children[i], Tail(w)) :
                i \in {j \in DOMAIN h.children : h.children[j].char = Head(w)}}

RECURSIVE HasPath(_, _)
HasPath(node, w) ==
  \/ w = << >>
  \/ /\ MapHas(node.children, Head(w))
     /\ HasPath(MapGet(node.children, Head(w)), Tail(w))

LogWords == [i \in DOMAIN log |-> log[i].word]

RECURSIVE FirstOccurrences(_)
FirstOccurrences(ws) ==
  IF ws = << >> THEN << >>
  ELSE LET init == SubSeq(ws, 1, Len(ws) - 1)
           last == ws[Len(ws)]
       IN IF last \in Range(init) THEN FirstOccurrences(init)
          ELSE Append(FirstOccurrences(init), last)

\* a Trie built by inserting ws, in order, into a freshly constructed Trie
RECURSIVE FreshTrie(_)
FreshTrie(ws) ==
  IF ws = << >> THEN [root |-> createNode, words |-> << >>]
  ELSE LET t == FreshTrie(SubSeq(ws, 1, Len(ws) - 1))
           res == insert(t.root, t.words, ws[Len(ws)])
       IN [root |-> res.root, words |-> res.words]

\* ------------------------------------------------------- TrieVisualizer
\* the resolved palette: no overrides, no CSS custom properties
colors == [accent |-> "#d94040", bg |-> "#ffffff", text |-> "#1e2a3a",
           textMuted |-> "#8899aa", border |-> "#d0d8e4"]
nodeRadius == 20
rootRadius == (nodeRadius + 1) \div 2

\* the words callers pass to addWord / addWords, the prefixes to highlightPath
VizWords == {EmptyWord, car, cart}
HighlightPaths == {EmptyWord, car, <<"c", "a">>}
MaxBatch == 2
MaxVizOps == 3
\* the lists passed to addWords: the empty string, when present, leads
Batches ==
  {b \in UNION {[1..n -> VizWords] : n \in 0..MaxBatch} :
     \A i \in 2..Len(b) : b[i] # EmptyWord}

\* root.descendants(): the nodes of the hierarchy, breadth first
RECURSIVE descendants(_)
descendants(queue) ==
  IF queue = << >> THEN << >>
  ELSE <<Head(queue)>> \o descendants(Tail(queue) \o Head(queue).children)

\* root.links(): one link per non-root node, breadth first
RECURSIVE linksFrom(_)
linksFrom(queue) ==
  IF queue = << >> THEN << >>
  ELSE LET n == Head(queue)
       IN [i \in DOMAIN n.children |-> [source |-> n.id, target |-> n.children[i].id]]
            \o linksFrom(Tail(queue) \o n.children)
links(h) == linksFrom(<<h>>)

\* the part of a hierarchy node a node element's handlers read (d.data)
datum(n) == [id |-> n.id, char |-> n.char, isTerminal |-> n.isTerminal]

\* selection.data(data, key): for each datum the index of the element it
\* updates (the first element with its key, for the first datum with that
\* key), or 0 when the datum enters
joinUpdate(keys, dataKeys) ==
  [i \in DOMAIN dataKeys |->
     IF /\ \A j \in 1..(i - 1) : dataKeys[j] # dataKeys[i]
        /\ \E p \in DOMAIN keys : keys[p] = dataKeys[i]
       THEN CHOOSE p \in DOMAIN keys :
              keys[p] = dataKeys[i] /\ \A q \in 1..(p - 1) : keys[q] # dataKeys[i]
       ELSE 0]

\* enter().append(): an entering element is inserted before the element of
\* the next updating datum, or appended when there is none
nextOf(upd, i) ==
  IF \E j \in (i + 1)..Len(upd) : upd[j] # 0
    THEN upd[CHOOSE j \in (i + 1)..Len(upd) :
               upd[j] # 0 /\ \A k \in (i + 1)..(j - 1) : upd[k] = 0]
    ELSE 0

Indices(n) == [i \in 1..n |-> i]

\* the datum an element was joined to, or 0 when the element exits
datumOf(upd, p) ==
  IF \E i \in DOMAIN upd : upd[i] = p
    THEN CHOOSE i \in DOMAIN upd : upd[i] = p ELSE 0

\* the layer after a join: olds[p] is element p as updated or exiting,
\* news[i] the element entering for datum i (where upd[i] = 0)
joined(upd, olds, news) ==
  LET entersBefore(p) ==
        LET is == SelectSeq(Indices(Len(upd)),
                            LAMBDA i : upd[i] = 0 /\ nextOf(upd, i) = p)
        IN [k \in DOMAIN is |-> news[is[k]]]
  IN Concat([p \in DOMAIN olds |-> entersBefore(p) \o <<olds[p]>>])
       \o entersBefore(0)

\* ---- links
enterLink(l) ==
  [source |-> l.source, target |-> l.target, fill |-> "none",
   stroke |-> colors.border, sw |-> "2.5", opacity |-> "0", trans |-> "enter"]
updateLink(e, l) ==
  [e EXCEPT !.source = l.source, !.target = l.target, !.trans = "update"]
exitLink(e) == [e EXCEPT !.trans = "exit"]

renderLinks(group, data) ==
  LET ls == links(data)
      upd == joinUpdate([p \in DOMAIN group |-> group[p].target],
                        [i \in DOMAIN ls |-> ls[i].target])
      olds == [p \in DOMAIN group |->
                 IF datumOf(upd, p) = 0 THEN exitLink(group[p])
                 ELSE updateLink(group[p], ls[datumOf(upd, p)])]
      news == [i \in DOMAIN ls |-> enterLink(ls[i])]
  IN joined(upd, olds, news)

\* ---- nodes
isRoot(d) == d.id = RootId
ring(op) ==
  [tag |-> "circle", r |-> nodeRadius + 5, fill |-> "none",
   stroke |-> colors.accent, sw |-> "2", opacity |-> op]
mainFill(d) ==
  IF isRoot(d) THEN colors.textMuted
  ELSE IF d.isTerminal THEN colors.accent ELSE colors.bg
mainStroke(d) == IF isRoot(d) THEN colors.textMuted ELSE colors.accent
mainCircle(d) ==
  [tag |-> "circle", r |-> IF isRoot(d) THEN rootRadius ELSE nodeRadius,
   fill |-> mainFill(d), stroke |-> mainStroke(d),
   sw |-> IF isRoot(d) THEN "2" ELSE "2.5", opacity |-> "1"]
labelFill(d) == IF d.isTerminal THEN "#fff" ELSE colors.text
label(d) == [tag |-> "text", fill |-> labelFill(d), text |-> d.char]

\* enterG with its ring (terminal nodes only), main circle and label
enterNode(d) ==
  [data |-> d, opacity |-> "0", trans |-> "none",
   kids |-> (IF d.isTerminal THEN <<ring("0.3")>> ELSE << >>)
              \o <<mainCircle(d), label(d)>>]

\* select('circle:nth-child(2)'): the second child, when it is a circle
nthChild2Circle(kids) ==
  IF Len(kids) >= 2 /\ kids[2].tag = "circle" THEN 2 ELSE 0
\* select('text'): the first text child
firstText(kids) ==
  IF \E k \in DOMAIN kids : kids[k].tag = "text"
    THEN CHOOSE k \in DOMAIN kids :
           kids[k].tag = "text" /\ \A j \in 1..(k - 1) : kids[j].tag # "text"
    ELSE 0
circleCount(kids) == Cardinality({k \in DOMAIN kids : kids[k].tag = "circle"})
\* g.insert('circle', 'circle'): before the first circle child
firstCircle(kids) ==
  CHOOSE k \in DOMAIN kids :
    kids[k].tag = "circle" /\ \A j \in 1..(k - 1) : kids[j].tag # "circle"
insertRing(kids) ==
  LET k == firstCircle(kids)
  IN SubSeq(kids, 1, k - 1) \o <<ring("0.3")>> \o SubSeq(kids, k, Len(kids))

\* mergedNode that also resets the stroke width of the main circle
mergedNode_resetWidth(g, d) ==
  LET c == nthChild2Circle(g.kids)
      k1 == IF c = 0 THEN g.kids
            ELSE [g.kids EXCEPT ![c].r = IF isRoot(d) THEN rootRadius ELSE nodeRadius,
                                ![c].fill = mainFill(d),
                                ![c].stroke = mainStroke(d),
                                ![c].sw = IF isRoot(d) THEN "2" ELSE "2.5"]
      t == firstText(k1)
      k2 == IF t = 0 THEN k1 ELSE [k1 EXCEPT ![t].fill = labelFill(d)]
      k3 == IF d.isTerminal /\ circleCount(k2) = 1 THEN insertRing(k2) ELSE k2
  IN [g EXCEPT !.data = d, !.trans = "show", !.kids = k3]

\* what render does to every element of merged (entering and updating):
\* the attributes are recorded at the values their transitions run to
mergedNode(g, d) ==
  LET c == nthChild2Circle(g.kids)
      k1 == IF c = 0 THEN g.kids
            ELSE [g.kids EXCEPT ![c].r = IF isRoot(d) THEN rootRadius ELSE nodeRadius,
                                ![c].fill = mainFill(d),
                                ![c].stroke = mainStroke(d)]
      t == firstText(k1)
      k2 == IF t = 0 THEN k1 ELSE [k1 EXCEPT ![t].fill = labelFill(d)]
      k3 == IF d.isTerminal /\ circleCount(k2) = 1 THEN insertRing(k2) ELSE k2
  IN [g EXCEPT !.data = d, !.trans = "show", !.kids = k3]
exitNode(g) == [g EXCEPT !.trans = "exit"]

renderNodes(group, data) ==
  LET ns == descendants(<<data>>)
      upd == joinUpdate([p \in DOMAIN group |-> group[p].data.id],
                        [i \in DOMAIN ns |-> ns[i].id])
      olds == [p \in DOMAIN group |->
                 IF datumOf(upd, p) = 0 THEN exitNode(group[p])
                 ELSE mergedNode(group[p], datum(ns[datumOf(upd, p)]))]
      news == [i \in DOMAIN ns |-> mergedNode(enterNode(datum(ns[i])), datum(ns[i]))]
  IN joined(upd, olds, news)

\* render() on the scene sc = [nodes, links] with the trie root r
render(sc, r) ==
  LET data == toHierarchyOf(r)
  IN [nodes |-> renderNodes(sc.nodes, data), links |-> renderLinks(sc.links, data)]

\* the render passes of one call, in order, applied to the scene
RECURSIVE renderAll(_, _)
renderAll(sc, rs) ==
  IF rs = << >> THEN sc ELSE renderAll(render(sc, Head(rs)), Tail(rs))

scene == [nodes |-> nodeGroup, links |-> linkGroup]

\* a call that made the render passes rs (trie roots, in order)
Rendered(rs) ==
  LET sc == renderAll(scene, rs)
  IN /\ nodeGroup' = sc.nodes
     /\ linkGroup' = sc.links
     /\ phase' = IF rs = << >> THEN phase ELSE 0
     /\ renderCount' = renderCount + Len(rs)
     /\ passes' = [i \in DOMAIN rs |-> toHierarchyOf(rs[i])]

\* addWord(word): the trie after, the value returned, the passes made
addWord(r, ws, word) ==
  LET res == insert(r, ws, word)
  IN [ret |-> res.ret, root |-> res.root, words |-> res.words,
      renders |-> IF res.ret THEN <<res.root>> ELSE << >>]

\* addWords rendering inside the loop, once per accepted word
RECURSIVE addWords_each(_, _, _)
addWords_each(r, ws, batch) ==
  IF batch = << >> THEN [root |-> r, words |-> ws, changed |-> FALSE, renders |-> << >>]
  ELSE LET res == insert(r, ws, Head(batch))
           rest == addWords_each(res.root, res.words, Tail(batch))
       IN [rest EXCEPT !.changed = res.ret \/ @,
                       !.renders = (IF res.ret THEN <<res.root>> ELSE << >>) \o @]

\* the loop of addWords: the trie after it and the changed flag
RECURSIVE addWordsLoop(_, _, _, _)
addWordsLoop(r, ws, batch, changed) ==
  IF batch = << >> THEN [root |-> r, words |-> ws, changed |-> changed]
  ELSE LET res == insert(r, ws, Head(batch))
       IN addWordsLoop(res.root, res.words, Tail(batch), changed \/ res.ret)

\* addWords(words): the trie after, the passes made
addWords(r, ws, batch) ==
  LET res == addWordsLoop(r, ws, batch, FALSE)
  IN [root |-> res.root, words |-> res.words, changed |-> res.changed,
      renders |-> IF res.changed THEN <<res.root>> ELSE << >>]

\* viz.addWord(word)
AddWord(word) ==
  /\ nOps < MaxVizOps
  /\ LET res == addWord(root, _words, word)
     IN /\ root' = res.root
        /\ _words' = res.words
        /\ ret' = <<res.ret>>
        /\ Rendered(res.renders)
  /\ lastOp' = [kind |-> "addWord", word |-> word, batch |-> << >>]
  /\ nOps' = nOps + 1
  /\ UNCHANGED <<histVars, anim>>

\* viz.addWords(words)
AddWords(batch) ==
  /\ nOps < MaxVizOps
  /\ LET res == addWords(root, _words, batch)
     IN /\ root' = res.root
        /\ _words' = res.words
        /\ Rendered(res.renders)
  /\ ret' = << >>
  /\ lastOp' = [kind |-> "addWords", word |-> << >>, batch |-> batch]
  /\ nOps' = nOps + 1
  /\ UNCHANGED <<histVars, anim>>

\* viz.clear()
VizClear ==
  /\ nOps < MaxVizOps
  /\ root' = clearRoot(root)
  /\ _words' = clearWords(_words)
  /\ Rendered(<<clearRoot(root)>>)
  /\ ret' = << >>
  /\ lastOp' = [kind |-> "clear", word |-> << >>, batch |-> << >>]
  /\ nOps' = nOps + 1
  /\ anim' = [k \in DOMAIN anim |-> [anim[k] EXCEPT !.cleared = TRUE]]
  /\ UNCHANGED histVars

\* clearHighlights(): every circle and every link back to 2.5
clearedKids(kids) ==
  [k \in DOMAIN kids |->
     IF kids[k].tag = "circle" THEN [kids[k] EXCEPT !.sw = "2.5"] ELSE kids[k]]
clearHighlightsNodes(group) ==
  [p \in DOMAIN group |-> [group[p] EXCEPT !.kids = clearedKids(@)]]
clearHighlightsLinks(group) ==
  [p \in DOMAIN group |-> [group[p] EXCEPT !.sw = "2.5"]]

\* the ids highlightPath collects
pathIds(path) == {RootId} \cup Prefixes(path)

\* highlightPath on the node layer
highlightNodes(group, path) ==
  LET ids == pathIds(path)
      hl(g) == LET c == nthChild2Circle(g.kids)
               IN IF c = 0 THEN g
                  ELSE [g EXCEPT !.kids[c].sw =
                                   IF g.data.id \in ids THEN "4" ELSE "2.5"]
  IN [p \in DOMAIN group |-> hl(clearHighlightsNodes(group)[p])]

\* highlightPath on the link layer
highlightLinks(group, path) ==
  LET ids == pathIds(path)
  IN [p \in DOMAIN group |->
        [group[p] EXCEPT !.sw = IF group[p].target \in ids THEN "4" ELSE "2.5"]]

\* viz.highlightPath(path)
HighlightPath(path) ==
  /\ nOps < MaxVizOps
  /\ nodeGroup' = highlightNodes(nodeGroup, path)
  /\ linkGroup' = highlightLinks(linkGroup, path)
  /\ ret' = << >>
  /\ lastOp' = [kind |-> "highlightPath", word |-> path, batch |-> << >>]
  /\ nOps' = nOps + 1
  /\ passes' = << >>
  /\ UNCHANGED <<trieVars, phase, renderCount, histVars, anim>>

\* viz.clearHighlights()
ClearHighlights ==
  /\ nOps < MaxVizOps
  /\ nodeGroup' = clearHighlightsNodes(nodeGroup)
  /\ linkGroup' = clearHighlightsLinks(linkGroup)
  /\ ret' = << >>
  /\ lastOp' = [kind |-> "clearHighlights", word |-> << >>, batch |-> << >>]
  /\ nOps' = nOps + 1
  /\ passes' = << >>
  /\ UNCHANGED <<trieVars, phase, renderCount, histVars, anim>>

\* The transitions of a render pass share one clock: they start on the next
\* frame (phase 1), the exits end at duration / 2 (phase 2), the others at
\* duration (phase 3).  A later pass schedules a transition on every element
\* of both layers, which pre-empts the earlier one where it stands.
started(e) ==
  IF e.trans \in {"enter", "show"} /\ e.opacity = "0" THEN [e EXCEPT !.opacity = "mid"]
  ELSE IF e.trans = "exit" /\ e.opacity = "1" THEN [e EXCEPT !.opacity = "mid"]
  ELSE e
ended(e) ==
  IF e.trans \in {"enter", "show"} THEN [e EXCEPT !.opacity = "1", !.trans = "none"]
  ELSE [e EXCEPT !.trans = "none"]
tick(group, ph) ==
  CASE ph = 0 -> [p \in DOMAIN group |-> started(group[p])]
    [] ph = 1 -> SelectSeq(group, LAMBDA e : e.trans # "exit")
    [] ph = 2 -> [p \in DOMAIN group |-> ended(group[p])]

\* time passes: the transitions advance
Tick ==
  /\ phase < 3
  /\ nodeGroup' = tick(nodeGroup, phase)
  /\ linkGroup' = tick(linkGroup, phase)
  /\ phase' = phase + 1
  /\ UNCHANGED <<trieVars, renderVars, ret, lastOp, nOps, histVars, anim>>

NextViz ==
  \/ \E word \in VizWords : AddWord(word)
  \/ \E batch \in Batches : AddWords(batch)
  \/ VizClear
  \/ \E path \in HighlightPaths : HighlightPath(path)
  \/ ClearHighlights
  \/ Tick

SpecViz == Init /\ [][NextViz]_vars

\* ------------------------------------------------------------- claims

\* C1: insert(w) of a word already in the accepted word list returns false
\* and leaves wordCount, nodeCount, words and the exported hierarchy as they
\* were before the call.
C1_DuplicateInsertIsNoOp ==
  [][(lastOp'.kind = "insert" /\ lastOp'.word \in Range(_words))
       => /\ ret' = <<FALSE>>
          /\ wordCountOf(_words') = wordCount
          /\ nodeCountOf(root') = nodeCount
          /\ _words' = _words
          /\ toHierarchyOf(root') = toHierarchy]_vars

C1_Witness ==
  /\ lastOp.kind = "insert"
  /\ lastOp.word \in Range(_words)
  /\ ret = <<FALSE>>
  /\ Len(log) >= 2
  /\ \E i \in 1..(Len(log) - 1) : log[i] = [word |-> lastOp.word, ret |-> TRUE]

\* C3: after inserting a sequence of non-empty words (repetitions allowed)
\* into a fresh or just-cleared Trie, words is the subsequence of first
\* occurrences in insertion order, wordCount is the number of distinct words
\* inserted, and insert returned true exactly on the first occurrences.
C3_FirstOccurrences ==
  (\A i \in DOMAIN log : log[i].word # EmptyWord)
    => /\ words = FirstOccurrences(LogWords)
       /\ wordCount = Cardinality(Range(LogWords))
       /\ \A i \in DOMAIN log :
            log[i].ret = (\A j \in 1..(i - 1) : log[j].word # log[i].word)

C3_Witness ==
  /\ Len(log) >= 3
  /\ \A i \in DOMAIN log : log[i].word # EmptyWord
  /\ \E i, j \in DOMAIN log : i < j /\ log[i].word = log[j].word
  /\ log[Len(log)].ret = TRUE
  /\ wordCount = 2

\* C4: in every hierarchy returned by toHierarchy(), the root's id differs
\* from the id of every non-root node, and all node ids are pairwise distinct.
C4_RootIdDistinct ==
  LET ns == Flatten(toHierarchy)
  IN /\ \A i \in 2..Len(ns) : ns[i].id # ns[1].id
     /\ \A i, j \in DOMAIN ns : i # j => ns[i].id # ns[j].id

\* C5: in the hierarchy returned by toHierarchy(), the children of every node
\* are sorted by character strictly ascending, every non-root node's path is
\* its parent's path followed by its own char, and the root's path and char
\* are empty.
C5_SortedChildrenAndPaths ==
  LET h == toHierarchy
      ns == Flatten(h)
  IN /\ h.path = << >>
     /\ h.char = ""
     /\ \A n \in DOMAIN ns :
          LET cs == ns[n].children
          IN /\ \A i \in DOMAIN cs : cs[i].path = ns[n].path \o <<cs[i].char>>
             /\ \A i \in 1..(Len(cs) - 1) :
                  CodeUnit(cs[i].char) < CodeUnit(cs[i + 1].char)

C5_Witness ==
  /\ \E i \in DOMAIN root.children :
       /\ Len(root.children[i].val.children) >= 2
       /\ MapKeys(root.children[i].val.children)
            # sort(MapKeys(root.children[i].val.children))
  /\ Len(root.children) >= 2
  /\ MapKeys(root.children) # sort(MapKeys(root.children))

\* C6: a non-root node exists for a prefix p iff p is a non-empty prefix of
\* some accepted word, so nodeCount is 1 plus the number of distinct
\* non-empty prefixes of the accepted words; it is 1 on a fresh or cleared
\* Trie and 6 after inserting cat, car, card.
C6_NodesArePrefixes ==
  /\ \A p \in PrefixesOf(Words) : HasPath(root, p) <=> p \in PrefixesOf(Range(_words))
  /\ nodeCount = 1 + Cardinality(PrefixesOf(Range(_words)))
  /\ (lastOp.kind \in {"new", "clear"} => nodeCount = 1)
  /\ (Range(_words) = {cat, car, card} => nodeCount = 6)

C6_Witness ==
  /\ Range(_words) = {cat, car, card}
  /\ nodeCount = 6
  /\ cleared

\* C7: wordCount is the length of words; a hierarchy node is terminal iff its
\* path is an accepted word; each accepted word has exactly one terminal
\* node, the one reached by following its characters from the root, and that
\* node's words list is exactly that one word.
C7_TerminalsAreWords ==
  LET h == toHierarchy
      ns == Flatten(h)
  IN /\ wordCount = Len(words)
     /\ \A i \in DOMAIN ns : ns[i].isTerminal <=> ns[i].path \in Range(_words)
     /\ \A w \in Range(_words) :
          /\ Cardinality({i \in DOMAIN ns : ns[i].isTerminal /\ ns[i].path = w}) = 1
          /\ Cardinality(Follow(h, w)) = 1
          /\ \A n \in Follow(h, w) :
               n.isTerminal /\ n.path = w /\ n.words = <<w>>

C7_Witness ==
  /\ car \in Range(_words)
  /\ card \in Range(_words)
  /\ nodeAt(root, <<"c", "a">>).isTerminal = FALSE
  /\ nodeAt(root, car).words = <<car>>

\* C8: clear() followed by inserting a list of words W yields the same
\* exported hierarchy, the same words and the same counts as inserting W into
\* a freshly constructed Trie; nothing inserted before the clear remains.
C8_ClearThenInsertLikeFresh ==
  cleared =>
    LET fresh == FreshTrie(LogWords)
    IN /\ toHierarchy = toHierarchyOf(fresh.root)
       /\ words = fresh.words
       /\ wordCount = wordCountOf(fresh.words)
       /\ nodeCount = nodeCountOf(fresh.root)

C8_Witness ==
  /\ cleared
  /\ lastOp.kind = "insert"
  /\ _words # << >>
  /\ \E w \in dropped : w \notin Range(_words) /\ ~HasPath(root, w)

\* the main circle of a node element: its circle that is not the ring
MainCircles(g) ==
  {k \in DOMAIN g.kids : g.kids[k].tag = "circle" /\ g.kids[k].fill # "none"}

\* C2: insert of the empty string returns false, raises no error and changes
\* none of wordCount, nodeCount and words; addWord('') returns false and runs
\* no render pass.
C2_EmptyWordRejected ==
  [][/\ LET res == insert(root, _words, EmptyWord)
        IN /\ res.ret = FALSE
           /\ res.words = words
           /\ wordCountOf(res.words) = wordCount
           /\ nodeCountOf(res.root) = nodeCount
     /\ (lastOp'.kind = "addWord" /\ lastOp'.word = EmptyWord /\ nOps' = nOps + 1)
          => /\ ret' = <<FALSE>>
             /\ passes' = << >>
             /\ renderCount' = renderCount
             /\ UNCHANGED <<trieVars, sceneVars>>]_vars

C2_Witness ==
  /\ lastOp.kind = "addWord"
  /\ lastOp.word = EmptyWord
  /\ ret = <<FALSE>>
  /\ renderCount = 1
  /\ nodeGroup # << >>
  /\ wordCount = 2

\* C9: one call addWords(ws) runs exactly one render pass when at least one
\* word of ws is newly accepted and none when none is, whatever the length
\* of ws; the single pass happens after all words of ws have been inserted.
C9_AddWordsOnePass ==
  [][(lastOp'.kind = "addWords" /\ nOps' = nOps + 1)
       => LET b == lastOp'.batch
              accepted == \E i \in DOMAIN b : b[i] # EmptyWord /\ b[i] \notin Range(_words)
          IN /\ Len(passes') = IF accepted THEN 1 ELSE 0
             /\ renderCount' = renderCount + Len(passes')
             /\ Range(_words') = Range(_words) \cup (Range(b) \ {EmptyWord})
             /\ accepted => passes'[1] = toHierarchyOf(root')
             /\ ~accepted => UNCHANGED <<trieVars, sceneVars>>]_vars

C9_Witness ==
  /\ lastOp.kind = "addWords"
  /\ lastOp.batch = <<cart, car>>
  /\ _words = <<cart, car>>
  /\ renderCount = 1
  /\ Len(passes) = 1
  /\ Len(nodeGroup) = 5

\* C10: after highlightPath(p), every rendered node whose id is the root
\* sentinel or a non-empty prefix of p has stroke width 4 on its main circle,
\* every link whose target id is in that set has it too, and every other node
\* and link has width 2.5.
C10_HighlightPathEmphasis ==
  lastOp.kind = "highlightPath" =>
    LET ids == {RootId} \cup Prefixes(lastOp.word)
        width(id) == IF id \in ids THEN "4" ELSE "2.5"
    IN /\ \A p \in DOMAIN nodeGroup :
            /\ MainCircles(nodeGroup[p]) # {}
            /\ \A k \in MainCircles(nodeGroup[p]) :
                 nodeGroup[p].kids[k].sw = width(nodeGroup[p].data.id)
       /\ \A p \in DOMAIN linkGroup :
            linkGroup[p].sw = width(linkGroup[p].target)

\* the stroke width render gives circle k of node element g
renderWidth(g, k) ==
  IF g.kids[k].fill = "none" THEN "2"
  ELSE IF isRoot(g.data) THEN "2" ELSE "2.5"

\* C11: after a highlightPath call followed by clearHighlights(), every
\* rendered node circle and every link has the stroke width rendering gave
\* it (the root's stays narrower than that of regular nodes).
C11_ClearHighlightsRestores ==
  [][(lastOp.kind = "highlightPath" /\ lastOp'.kind = "clearHighlights")
       => /\ \A p \in DOMAIN nodeGroup' :
               \A k \in DOMAIN nodeGroup'[p].kids :
                 nodeGroup'[p].kids[k].tag = "circle"
                   => nodeGroup'[p].kids[k].sw = renderWidth(nodeGroup'[p], k)
          /\ \A p \in DOMAIN linkGroup' : linkGroup'[p].sw = "2.5"]_vars

Rings(g) ==
  {k \in DOMAIN g.kids : g.kids[k].tag = "circle" /\ g.kids[k].fill = "none"}
mainSw(g) == g.kids[CHOOSE k \in MainCircles(g) : TRUE].sw
ringSws(g) == {g.kids[k].sw : k \in Rings(g)}
Emphasized(g) == \E k \in DOMAIN g.kids : g.kids[k].tag = "circle" /\ g.kids[k].sw = "4"

\* a step of a call that ran a render pass
RenderStep == passes' # << >> /\ renderCount' > renderCount

Calls == {1, 2}
MaxAnimOps == 1
\* the word lists callers pass to addWordsAnimated, and to addWords meanwhile
AnimLists == {<< >>, <<car>>, <<car, cart>>, <<cart, car>>, <<EmptyWord, cart>>,
              <<car, car>>}

\* a call as it starts: nothing processed yet
newCall(ws) == [ws |-> ws, done |-> << >>, state |-> "running", cleared |-> FALSE]

\* the loop of addWordsAnimated without the await: all the words at once
RECURSIVE animLoop_noAwait(_, _, _)
animLoop_noAwait(c, r, wl) ==
  IF Len(c.done) < Len(c.ws)
    THEN LET res == addWord(r, wl, c.ws[Len(c.done) + 1])
             rest == animLoop_noAwait(
                       [c EXCEPT !.done = Append(@, [word |-> c.ws[Len(c.done) + 1],
                                                     ret |-> res.ret])],
                       res.root, res.words)
         IN [rest EXCEPT !.renders = res.renders \o @]
    ELSE [call |-> [c EXCEPT !.state = "resolved"], root |-> r, words |-> wl,
          renders |-> << >>]

\* the loop of addWordsAnimated from where call c stands, up to its next
\* await (or its end): the call, the trie and the passes made
animLoop(c, r, wl) ==
  IF Len(c.done) < Len(c.ws)
    THEN LET word == c.ws[Len(c.done) + 1]
             res == addWord(r, wl, word)
         IN [call |-> [c EXCEPT !.done = Append(@, [word |-> word, ret |-> res.ret]),
                                !.state = "waiting"],
             root |-> res.root, words |-> res.words, renders |-> res.renders]
    ELSE [call |-> [c EXCEPT !.state = "resolved"], root |-> r, words |-> wl,
          renders |-> << >>]

\* call k runs from where it stands to its next await
AnimRun(k, c) ==
  LET res == animLoop(c, root, _words)
  IN /\ anim' = [j \in DOMAIN anim \cup {k} |-> IF j = k THEN res.call ELSE anim[j]]
     /\ root' = res.root
     /\ _words' = res.words
     /\ Rendered(res.renders)
     /\ ret' = << >>
     /\ lastOp' = [kind |-> "addWordsAnimated", word |-> << >>, batch |-> c.ws]
     /\ UNCHANGED <<nOps, histVars>>

\* viz.addWordsAnimated(ws): runs to the first await
AddWordsAnimated(ws) ==
  /\ Len(anim) + 1 \in Calls
  /\ AnimRun(Len(anim) + 1, newCall(ws))

\* the timer call k awaits fires: its loop resumes
AnimTimer(k) ==
  /\ k \in DOMAIN anim
  /\ anim[k].state = "waiting"
  /\ AnimRun(k, anim[k])

NextAnim ==
  \/ \E ws \in AnimLists : AddWordsAnimated(ws)
  \/ \E k \in Calls : AnimTimer(k)
  \/ \E word \in VizWords : nOps < MaxAnimOps /\ AddWord(word)
  \/ \E batch \in AnimLists : nOps < MaxAnimOps /\ AddWords(batch)
  \/ nOps < MaxAnimOps /\ VizClear

\* call k is suspended at its await: exactly then AnimTimer(k) can step
waitingCall(k) == k \in DOMAIN anim /\ anim[k].state = "waiting"

\* every timer set fires: weak fairness of each AnimTimer(k), written out with
\* waitingCall(k) for its enabling condition
SpecAnim ==
  /\ Init /\ [][NextAnim]_vars
  /\ \A k \in Calls : []<>(~waitingCall(k)) \/ []<><<AnimTimer(k)>>_vars

DoneWords(c) == [j \in DOMAIN c.done |-> c.done[j].word]
Resolved(k) == k \in DOMAIN anim /\ anim[k].state = "resolved"

\* C13: addWordsAnimated(ws, d) inserts the words of ws one at a time in list
\* order, with a suspension between consecutive insertions; its promise
\* resolves only after the last word has been processed, and always resolves
\* once each timer fires; when no clear() ran meanwhile, on resolution every
\* non-empty word of ws is in words.
C13_AnimatedInOrder ==
  /\ [](\A k \in DOMAIN anim :
          /\ DoneWords(anim[k]) = SubSeq(anim[k].ws, 1, Len(anim[k].done))
          /\ anim[k].state \in {"waiting", "resolved"}
          /\ anim[k].state = "resolved" => Len(anim[k].done) = Len(anim[k].ws)
          /\ (anim[k].state = "resolved" /\ ~anim[k].cleared)
               => \A w \in Range(anim[k].ws) \ {EmptyWord} : w \in Range(words))
  /\ [][/\ \A k \in DOMAIN anim :
             /\ k \in DOMAIN anim'
             /\ anim'[k].ws = anim[k].ws
             /\ Len(anim'[k].done) \in {Len(anim[k].done), Len(anim[k].done) + 1}
             /\ SubSeq(anim'[k].done, 1, Len(anim[k].done)) = anim[k].done
             /\ anim[k].state = "resolved" => anim'[k].state = "resolved"
        /\ \A k \in DOMAIN anim' \ DOMAIN anim : Len(anim'[k].done) <= 1
        /\ Cardinality({k \in DOMAIN anim' :
                          k \notin DOMAIN anim \/ anim'[k].done # anim[k].done}) <= 1]_vars
  /\ \A k \in Calls : (k \in DOMAIN anim) ~> Resolved(k)

C13_Witness ==
  /\ Resolved(1)
  /\ anim[1].ws = <<cart, car>>
  /\ ~anim[1].cleared
  /\ anim[1].done = <<[word |-> cart, ret |-> TRUE], [word |-> car, ret |-> TRUE]>>
  /\ words = <<cart, car>>
  /\ renderCount = 2

\* viz.stats
stats == [words |-> wordCount, nodes |-> nodeCount]

\* the elements of a layer still displayed: those not on their way out
Displayed(group) == SelectSeq(group, LAMBDA e : e.trans # "exit")

\* C14: clear() from a rendered state empties the trie and starts an exit
\* transition for every displayed node and link; when no operation follows and
\* the transitions have run to their end, the scene is empty and
\* stats = {words: 0, nodes: 1}.
C14_ClearEmptiesScene ==
  (lastOp.kind = "clear" /\ renderCount >= 2)
    => /\ stats = [words |-> 0, nodes |-> 1]
       /\ phase = 0 => (Displayed(nodeGroup) = << >> /\ Displayed(linkGroup) = << >>)
       /\ phase = 3 => (nodeGroup = << >> /\ linkGroup = << >>)

\* the text children of a node
Labels(g) == {k \in DOMAIN g.kids : g.kids[k].tag = "text"}

\* C15: after every render pass every displayed non-root node follows the
\* color rule: the main circle's fill is accent when the node is terminal and
\* background otherwise, and the label's fill is white exactly when the node
\* is terminal, also for a displayed node that has just become terminal.
C15_ColorRule ==
  \A p \in DOMAIN nodeGroup :
    (nodeGroup[p].trans # "exit" /\ ~isRoot(nodeGroup[p].data))
      => /\ \A k \in MainCircles(nodeGroup[p]) :
              nodeGroup[p].kids[k].fill
                = (IF nodeGroup[p].data.isTerminal THEN colors.accent ELSE colors.bg)
         /\ \A k \in Labels(nodeGroup[p]) :
              (nodeGroup[p].kids[k].fill = "#fff") <=> nodeGroup[p].data.isTerminal

\* C16: after every render pass, also one issued before earlier enter or exit
\* transitions have finished, a displayed node has the outer ring exactly when
\* it is terminal in the trie, and never more than one ring.
C16_RingIffTerminal ==
  \A p \in DOMAIN nodeGroup :
    nodeGroup[p].trans # "exit"
      => /\ Cardinality(Rings(nodeGroup[p])) <= 1
         /\ (Rings(nodeGroup[p]) # {}) <=> nodeGroup[p].data.isTerminal

\* the insertions calls of addWordsAnimated have had accepted: <<call, index>>
AcceptedBy(w) ==
  UNION {{<<k, j>> : j \in {i \in DOMAIN anim[k].done :
                               anim[k].done[i].word = w /\ anim[k].done[i].ret}} :
           k \in DOMAIN anim}
\* the position of an accepted word in words
PosIn(ws, w) == CHOOSE i \in DOMAIN ws : ws[i] = w
NoClearMeanwhile == \A k \in DOMAIN anim : ~anim[k].cleared
\* the ids of the displayed nodes, and of the nodes of a hierarchy
DisplayedIds == {nodeGroup[p].data.id : p \in {q \in DOMAIN nodeGroup : nodeGroup[q].trans # "exit"}}
HierarchyIds(h) == LET ns == Flatten(h) IN {ns[i].id : i \in DOMAIN ns}

C18_OpaqueAtRest ==
  phase = 3
    => /\ \A p \in DOMAIN nodeGroup : nodeGroup[p].opacity = "1"
       /\ \A p \in DOMAIN linkGroup : linkGroup[p].opacity = "1"

\* the calls studied for the synchronisation of scene and trie: the words
\* include one spelt like the root's id
SyncWords == {EmptyWord, car, RootId}
SyncBatches == {<< >>, <<RootId>>, <<car, RootId>>}
NextSync ==
  \/ \E word \in SyncWords : AddWord(word)
  \/ \E batch \in SyncBatches : AddWords(batch)
  \/ VizClear
  \/ Tick
SpecSync == Init /\ [][NextSync]_vars

\* the displayed node elements bound to id, the targets of the displayed links
ElementsOf(id) ==
  {p \in DOMAIN nodeGroup : nodeGroup[p].trans # "exit" /\ nodeGroup[p].data.id = id}
DisplayedTargets ==
  {linkGroup[p].target : p \in {q \in DOMAIN linkGroup : linkGroup[q].trans # "exit"}}
NonRootIds(h) == LET ns == Flatten(h) IN {ns[i].id : i \in 2..Len(ns)}

\* C19: from the first render pass on, after every addWord, addWords and
\* clear the ids bound to the displayed node elements are the node ids of
\* toHierarchy(), one element per id, and the targets of the displayed links
\* are the ids of the non-root nodes.
C19_SceneMatchesTrie ==
  renderCount > 0
    => /\ DisplayedIds = HierarchyIds(toHierarchy)
       /\ \A id \in DisplayedIds : Cardinality(ElementsOf(id)) = 1
       /\ DisplayedTargets = NonRootIds(toHierarchy)

\* every ordering of the words of a set
RECURSIVE Orderings(_)
Orderings(S) ==
  IF S = {} THEN {<< >>}
  ELSE UNION {{<<w>> \o p : p \in Orderings(S \ {w})} : w \in S}

\* the standalone Trie fed non-empty words only, in every order
OrderWords == {cat, car, card, at, cB}
NextOrder == \E word \in OrderWords : Insert(word)
SpecOrder == Init /\ [][NextOrder]_vars

\* C20: the exported hierarchy depends only on the set of accepted words:
\* inserting the accepted words into a fresh Trie in any order gives the same
\* tree (ids, chars, paths, terminal flags, words, child order) and the same
\* nodeCount as the trie has now.
C20_OrderIndependent ==
  \A ws \in Orderings(Range(_words)) :
    LET fresh == FreshTrie(ws)
    IN /\ toHierarchyOf(fresh.root) = toHierarchy
       /\ nodeCountOf(fresh.root) = nodeCount

C20_Witness ==
  /\ Len(_words) >= 3
  /\ \E ws \in Orderings(Range(_words)) :
       /\ FreshTrie(ws).root # root
       /\ toHierarchyOf(FreshTrie(ws).root) = toHierarchy

====
